---- MODULE Spec2Model ----
(***************************************************************************)
(* Proxy monitor (src/main.go): a single-instance registry monitor and the *)
(* short-lived instances that send it one command byte over a named pipe.  *)
(*                                                                         *)
(* Every invocation of the program is a process p \in Procs.  The process  *)
(* that gets the lock file runs serverMain: its main goroutine becomes the *)
(* poll loop (listenToProxyChanges), and it starts two more goroutines,    *)
(* the pipe listener (listenToNamedPipe) and the tray menu handler         *)
(* (createSystemTrayIcon).  The three goroutines share the unsynchronised  *)
(* global listenerEnabled, so every read and every write of it is a step   *)
(* of its own and the steps of the goroutines interleave freely.           *)
(***************************************************************************)
EXTENDS Integers, Sequences, FiniteSets, TLC

\* ------------------------------------------------------------- bounds
NProcs == 3          \* invocations of the program
MaxLog == 2          \* lines the log file may hold

Procs == 1..NProcs
NoProc == 0

\* ---------------------------------------------------------- constants
NO_COMMAND == 0
CMD_STOP == 1
CMD_QUIT == 2
CMD_START == 3

\* os.Args[1] of an invocation; "" stands for no argument at all
Args == {"", "-start", "-stop", "-quit", "-bogus"}

\* The two registry values a poll can find.  ProxyEnable is -1 when it cannot be read;
\* ProxyServer is Absent when the value does not exist (ErrNotExist) and
\* Unreadable when the read fails in any other way.
Absent == "<absent>"
Unreadable == "<unreadable>"
Addrs == {"10.0.0.1:8080"}
RegStates == [enable : {-1, 0, 1}, server : Addrs \cup {Absent, Unreadable}]

VARIABLES
  pc,               \* position of each process's main goroutine
  arg,              \* the process's command line argument, from the call
                    \* of parseCommand to the last use of its result
  role,             \* "none", "server" or "client": the branch main() took
  lock,             \* the process holding monitor.lock, NoProc when free
  listenerEnabled,  \* the global listenerEnabled of each process
  pipe,             \* the listenToNamedPipe goroutine of each process
  tray,             \* the tray menu goroutine of each process
  last,             \* lastProxyEnable, lastProxyServer of each process
  conn,             \* the client end of the connection a process dialled
  log,              \* the lines of proxy-monitor.log
  exitBy,           \* how each process ended
  lastTick,         \* history: the last call of checkForChanges
  rearmed,          \* history: armed again by a command, nothing logged since
  handled           \* history: what the listener made of the last connection
                    \* it read from, forgotten when the tray menu or
                    \* serverMain touches listenerEnabled

vars == <<pc, arg, role, lock, listenerEnabled, pipe, tray, last, conn, log,
          exitBy, lastTick, rearmed, handled>>

\* ------------------------------------------------------ initial values

\* The listener goroutine: pc is its position; cur the client whose
\* connection it holds, inbox the bytes that client wrote, peerOpen whether
\* the client end is still open; cmd, res and act are buffer[0] and the
\* outcome of executeCommand between its decision and the response.
NoPipe == [pc |-> "off", cur |-> NoProc, inbox |-> <<>>, peerOpen |-> FALSE,
           cmd |-> NO_COMMAND, res |-> FALSE, act |-> "none"]
\* The client end: srv is the server dialled, resp the bytes it wrote back,
\* srvOpen whether the server end is still open.
NoConn == [srv |-> NoProc, resp |-> <<>>, srvOpen |-> FALSE]
InitLast == [enable |-> 0, server |-> ""]
NoTick == [kind |-> "none", polled |-> FALSE, snap |-> InitLast]
\* kind is "exec" when conn.Read gave a byte and executeCommand returned res
\* for it, "dropped" when conn.Read failed
NoHandled == [kind |-> "none", cmd |-> NO_COMMAND, res |-> FALSE]

Init ==
  /\ pc = [p \in Procs |-> "new"]
  /\ arg = [p \in Procs |-> ""]
  /\ role = [p \in Procs |-> "none"]
  /\ lock = NoProc
  /\ listenerEnabled = [p \in Procs |-> TRUE]
  /\ pipe = [p \in Procs |-> NoPipe]
  /\ tray = [p \in Procs |-> "off"]
  /\ last = [p \in Procs |-> InitLast]
  /\ conn = [p \in Procs |-> NoConn]
  /\ log = <<>>
  /\ exitBy = [p \in Procs |-> "none"]
  /\ lastTick = NoTick
  /\ rearmed = [p \in Procs |-> FALSE]
  /\ handled = [p \in Procs |-> NoHandled]

\* ------------------------------------------------------ pure functions

\* parseCommand: the command constant of the first argument
parseCommand(a) ==
  IF a = "" THEN [cmd |-> NO_COMMAND, err |-> FALSE]
  ELSE IF a = "-stop" THEN [cmd |-> CMD_STOP, err |-> FALSE]
  ELSE IF a = "-start" THEN [cmd |-> CMD_START, err |-> FALSE]
  ELSE IF a = "-quit" THEN [cmd |-> CMD_QUIT, err |-> FALSE]
  ELSE [cmd |-> NO_COMMAND, err |-> TRUE]

\* executeCommand without the test of listenerEnabled: START and STOP
\* always take effect
executeCommand_noTest(cmd, enabled) ==
  IF cmd = CMD_START THEN [res |-> TRUE, act |-> "start"]
  ELSE IF cmd = CMD_STOP THEN [res |-> TRUE, act |-> "stop"]
  ELSE IF cmd = CMD_QUIT THEN [res |-> TRUE, act |-> "exit"]
  ELSE [res |-> TRUE, act |-> "none"]

\* executeCommand whose STOP case calls stopListening without the test
executeCommand_stopNoTest(cmd, enabled) ==
  IF cmd = CMD_START
    THEN (IF enabled THEN [res |-> FALSE, act |-> "none"]
                     ELSE [res |-> TRUE, act |-> "start"])
  ELSE IF cmd = CMD_STOP THEN [res |-> TRUE, act |-> "stop"]
  ELSE IF cmd = CMD_QUIT THEN [res |-> TRUE, act |-> "exit"]
  ELSE [res |-> TRUE, act |-> "none"]

\* executeCommand that returns false for a byte that is no command
executeCommand_unknownFalse(cmd, enabled) ==
  IF cmd = CMD_START
    THEN (IF enabled THEN [res |-> FALSE, act |-> "none"]
                     ELSE [res |-> TRUE, act |-> "start"])
  ELSE IF cmd = CMD_STOP
    THEN (IF ~enabled THEN [res |-> FALSE, act |-> "none"]
                      ELSE [res |-> TRUE, act |-> "stop"])
  ELSE IF cmd = CMD_QUIT
    THEN [res |-> TRUE, act |-> "exit"]
  ELSE [res |-> FALSE, act |-> "none"]

\* executeCommand whose QUIT case only prints and falls through
executeCommand_quitReturns(cmd, enabled) ==
  IF cmd = CMD_START
    THEN (IF enabled THEN [res |-> FALSE, act |-> "none"]
                     ELSE [res |-> TRUE, act |-> "start"])
  ELSE IF cmd = CMD_STOP
    THEN (IF ~enabled THEN [res |-> FALSE, act |-> "none"]
                      ELSE [res |-> TRUE, act |-> "stop"])
  ELSE [res |-> TRUE, act |-> "none"]

\* executeCommand, up to the call it ends in: res is the value it returns,
\* act the call it makes before returning ("start" = startListening(),
\* "stop" = stopListening(), "exit" = os.Exit(0), which never returns).
executeCommand(cmd, enabled) ==
  IF cmd = CMD_START
    THEN (IF enabled THEN [res |-> FALSE, act |-> "none"]
                     ELSE [res |-> TRUE, act |-> "start"])
  ELSE IF cmd = CMD_STOP
    THEN (IF ~enabled THEN [res |-> FALSE, act |-> "none"]
                      ELSE [res |-> TRUE, act |-> "stop"])
  ELSE IF cmd = CMD_QUIT
    THEN [res |-> TRUE, act |-> "exit"]
  ELSE [res |-> TRUE, act |-> "none"]

\* startListening / stopListening: the value listenerEnabled gets
applyAct(act, enabled) ==
  IF act = "start" THEN TRUE ELSE IF act = "stop" THEN FALSE ELSE enabled

\* The response byte with the two values swapped
responseByte_swapped(execRes) == IF execRes THEN 0 ELSE 1

\* The byte listenToNamedPipe answers with
responseByte(execRes) == IF execRes THEN 1 ELSE 0

\* A log line that carries the address in the off message too
logLine_offWithAddress(proxyEnable, proxyServer) ==
  IF proxyEnable = 0 THEN "proxy off, " \o proxyServer
                     ELSE "proxy on, " \o proxyServer

\* The text of a log line, after the time stamp and the tab
logLine(proxyEnable, proxyServer) ==
  IF proxyEnable = 0 THEN "proxy off" ELSE "proxy on, " \o proxyServer

\* checkForChanges that takes a missing ProxyServer for a read error
checkForChanges_absentFatal(lastProxyEnable, lastProxyServer, r) ==
  LET proxyEnable == r.enable
      proxyServer == IF r.server = Unreadable THEN "" ELSE r.server
  IN IF proxyEnable = -1 \/ r.server \in {Absent, Unreadable}
       THEN [cont |-> FALSE, enable |-> lastProxyEnable,
             server |-> lastProxyServer, lines |-> <<>>]
     ELSE IF proxyEnable = lastProxyEnable /\ proxyServer = lastProxyServer
       THEN [cont |-> TRUE, enable |-> lastProxyEnable,
             server |-> lastProxyServer, lines |-> <<>>]
     ELSE [cont |-> TRUE, enable |-> proxyEnable, server |-> proxyServer,
           lines |-> <<logLine(proxyEnable, proxyServer)>>]

\* checkForChanges without the return for an unchanged snapshot
checkForChanges_noReturn(lastProxyEnable, lastProxyServer, r) ==
  LET proxyServer == IF r.server \in {Absent, Unreadable} THEN "" ELSE r.server
  IN IF r.enable = -1 \/ r.server = Unreadable
       THEN [cont |-> FALSE, enable |-> lastProxyEnable,
             server |-> lastProxyServer, lines |-> <<>>]
       ELSE [cont |-> TRUE, enable |-> r.enable, server |-> proxyServer,
             lines |-> <<logLine(r.enable, proxyServer)>>]

\* checkForChanges once listenerEnabled was found true: cont is the value
\* it returns, enable and server the cache it leaves, lines what it
\* appends to the log file.
checkForChanges(lastProxyEnable, lastProxyServer, r) ==
  LET proxyEnable == r.enable
      proxyServer == IF r.server \in {Absent, Unreadable} THEN "" ELSE r.server
      lastServer1 == IF r.server = Absent THEN "" ELSE lastProxyServer
  IN IF proxyEnable = -1
       THEN [cont |-> FALSE, enable |-> lastProxyEnable,
             server |-> lastProxyServer, lines |-> <<>>]
     ELSE IF r.server = Unreadable
       THEN [cont |-> FALSE, enable |-> lastProxyEnable,
             server |-> lastProxyServer, lines |-> <<>>]
     ELSE IF proxyEnable = lastProxyEnable /\ proxyServer = lastServer1
       THEN [cont |-> TRUE, enable |-> lastProxyEnable,
             server |-> lastServer1, lines |-> <<>>]
     ELSE [cont |-> TRUE, enable |-> proxyEnable, server |-> proxyServer,
           lines |-> <<logLine(proxyEnable, proxyServer)>>]

\* The line clientMain prints for the reply it read
clientMessage(parsedCmd, reply) ==
  LET success == reply = 1
  IN IF parsedCmd = CMD_START
       THEN (IF success THEN "Started monitoring proxy settings."
                        ELSE "Already monitoring proxy settings.")
     ELSE IF parsedCmd = CMD_STOP
       THEN (IF success THEN "Stopped monitoring proxy settings"
                        ELSE "Proxy monitor is already turned off.")
     ELSE IF parsedCmd = CMD_QUIT THEN "Quitting monitor program..."
     ELSE ""

\* The snapshot a poll reads, an absent address read as the empty string
snapshot(r) ==
  [enable |-> r.enable, server |-> IF r.server = Absent THEN "" ELSE r.server]

readable(r) == r.enable # -1 /\ r.server # Unreadable

\* --------------------------------------------------------- process exit

\* The end of a server process (os.Exit, or main returning): its memory
\* and goroutines are gone, the lock file is released and the server end
\* of every connection it had is closed.  tk is the value the history
\* variable lastTick is left with.
Exit(p, why, tk) ==
  /\ pc' = [pc EXCEPT ![p] = "exited"]
  /\ arg' = [arg EXCEPT ![p] = ""]
  /\ lock' = IF lock = p THEN NoProc ELSE lock
  /\ listenerEnabled' = [listenerEnabled EXCEPT ![p] = TRUE]
  /\ pipe' = [pipe EXCEPT ![p] = NoPipe]
  /\ tray' = [tray EXCEPT ![p] = "off"]
  /\ last' = [last EXCEPT ![p] = InitLast]
  /\ rearmed' = [rearmed EXCEPT ![p] = FALSE]
  /\ handled' = [handled EXCEPT ![p] = NoHandled]
  /\ exitBy' = [exitBy EXCEPT ![p] = why]
  /\ lastTick' = tk
  /\ conn' = [c \in Procs |->
               IF conn[c].srv = p THEN [conn[c] EXCEPT !.srvOpen = FALSE]
                                  ELSE conn[c]]

\* The end of a client process: clientMain returns and the deferred
\* f.Close() closes its end of the connection, if it has one.
ClientExit(c, why) ==
  /\ pc' = [pc EXCEPT ![c] = "exited"]
  /\ arg' = [arg EXCEPT ![c] = ""]
  /\ conn' = [conn EXCEPT ![c] = NoConn]
  /\ exitBy' = [exitBy EXCEPT ![c] = why]

\* The listener goroutines as the close of c's end leaves them
peerClosed(c) ==
  [s \in Procs |-> IF pipe[s].cur = c THEN [pipe[s] EXCEPT !.peerOpen = FALSE]
                                      ELSE pipe[s]]

\* ------------------------------------------------------------- main()

\* A lock file that any process can take
lockFree_always == TRUE

\* singleinstance.CreateLockFile: it succeeds when no live process holds
\* the lock file
lockFree == lock = NoProc

\* main: take the lock file and run serverMain, or run clientMain.
\* Invocations are numbered in the order they start.
Launch(p) ==
  /\ pc[p] = "new"
  /\ \A q \in Procs : q < p => pc[q] # "new"
  /\ IF lockFree
       THEN /\ lock' = p
            /\ role' = [role EXCEPT ![p] = "server"]
            /\ pc' = [pc EXCEPT ![p] = "serverMain"]
       ELSE /\ lock' = lock
            /\ role' = [role EXCEPT ![p] = "client"]
            /\ pc' = [pc EXCEPT ![p] = "dial"]
  /\ UNCHANGED <<arg, listenerEnabled, pipe, tray, last, conn, log, exitBy,
                 lastTick, rearmed, handled>>

\* ---------------------------------------------------------- serverMain

\* serverMain up to the two go statements; a is the argument the process
\* was started with
ServerMain(p) ==
  /\ pc[p] = "serverMain"
  /\ \E a \in Args :
       LET cmd == parseCommand(a).cmd
       IN IF cmd = CMD_QUIT
            THEN /\ Exit(p, "return", NoTick)
                 /\ UNCHANGED <<role, log>>
            ELSE /\ arg' = [arg EXCEPT ![p] = a]
                 /\ pipe' = [pipe EXCEPT ![p] = [NoPipe EXCEPT !.pc = "listen"]]
                 /\ tray' = [tray EXCEPT ![p] = "idle"]
                 /\ pc' = [pc EXCEPT ![p] =
                             IF cmd = NO_COMMAND \/ cmd = CMD_START
                               THEN "startListening" ELSE "listenToProxyChanges"]
                 /\ UNCHANGED <<role, lock, listenerEnabled, last, conn, log,
                                exitBy, lastTick, rearmed, handled>>

\* serverMain: startListening() for no command and for -start
ServerStartListening(p) ==
  /\ pc[p] = "startListening"
  /\ listenerEnabled' = [listenerEnabled EXCEPT ![p] = applyAct("start", @)]
  /\ pc' = [pc EXCEPT ![p] = "listenToProxyChanges"]
  /\ handled' = [handled EXCEPT ![p] = NoHandled]
  /\ UNCHANGED <<arg, role, lock, pipe, tray, last, conn, log, exitBy,
                 lastTick, rearmed>>

\* ------------------------------------------------ listenToProxyChanges

\* Opening the registry key and the log file; when either fails the
\* function returns, and with it serverMain and main.
MonitorOpen(p) ==
  /\ pc[p] = "listenToProxyChanges"
  /\ \E ok \in BOOLEAN :
       IF ok
         THEN /\ pc' = [pc EXCEPT ![p] = "tick"]
              /\ arg' = [arg EXCEPT ![p] = ""]
              /\ UNCHANGED <<role, lock, listenerEnabled, pipe, tray, last,
                             conn, log, exitBy, lastTick, rearmed, handled>>
         ELSE /\ Exit(p, "return", NoTick)
              /\ UNCHANGED <<role, log>>

\* checkForChanges, its first statement: the read of listenerEnabled.  A
\* disarmed tick returns true at once and the loop sleeps.
TickCheck(p) ==
  /\ pc[p] = "tick"
  /\ IF listenerEnabled[p]
       THEN /\ pc' = [pc EXCEPT ![p] = "poll"]
            /\ lastTick' = [lastTick EXCEPT !.kind = "none"]
       ELSE /\ pc' = pc
            /\ lastTick' = [lastTick EXCEPT !.kind = "disarmed"]
  /\ UNCHANGED <<arg, role, lock, listenerEnabled, pipe, tray, last, conn,
                 log, exitBy, rearmed, handled>>

\* checkForChanges, the rest of an armed tick: read the two values (reg is
\* what the registry holds at that moment), compare, log.  A false result
\* ends the loop, and main returns.
TickPoll(p) ==
  /\ pc[p] = "poll"
  /\ \E reg \in RegStates :
       LET r == checkForChanges(last[p].enable, last[p].server, reg)
           tk == IF ~r.cont
                   THEN [NoTick EXCEPT !.kind = IF reg.enable = -1
                                                  THEN "fatal"
                                                  ELSE "fatal server"]
                 ELSE [kind |-> IF r.lines = <<>> THEN "same" ELSE "logged",
                       polled |-> TRUE, snap |-> snapshot(reg)]
       IN /\ Len(log) + Len(r.lines) <= MaxLog
          /\ log' = log \o r.lines
          /\ IF r.cont
               THEN /\ pc' = [pc EXCEPT ![p] = "tick"]
                    /\ last' = [last EXCEPT ![p] =
                                  [enable |-> r.enable, server |-> r.server]]
                    /\ rearmed' = [rearmed EXCEPT ![p] =
                                     @ /\ snapshot(reg) = last[p]]
                    /\ lastTick' = tk
                    /\ UNCHANGED <<arg, lock, listenerEnabled, pipe, tray, conn,
                                   exitBy, handled>>
               ELSE Exit(p, "return", tk)
  /\ UNCHANGED role

\* --------------------------------------------------- listenToNamedPipe

\* winio.ListenPipe: the first instance of the pipe exists from here on
PipeListen(s) ==
  /\ pipe[s].pc = "listen"
  /\ pipe' = [pipe EXCEPT ![s].pc = "accept"]
  /\ UNCHANGED <<pc, arg, role, lock, listenerEnabled, tray, last, conn, log,
                 exitBy, lastTick, rearmed, handled>>

\* l.Accept returns the connection a client made
PipeAccept(s) ==
  /\ pipe[s].pc = "accept"
  /\ pipe[s].cur # NoProc
  /\ pipe' = [pipe EXCEPT ![s].pc = "read"]
  /\ UNCHANGED <<pc, arg, role, lock, listenerEnabled, tray, last, conn, log,
                 exitBy, lastTick, rearmed, handled>>

\* A listener that returns when conn.Read fails, instead of accepting again
PipeRead_errorReturns(s) ==
  /\ pipe[s].pc = "read"
  /\ IF pipe[s].inbox # <<>>
       THEN LET cmd == pipe[s].inbox[1]
                r == executeCommand(cmd, listenerEnabled[s])
            IN IF r.act = "exit"
                 THEN Exit(s, "quit", NoTick)
                 ELSE /\ pipe' = [pipe EXCEPT ![s] =
                                    [@ EXCEPT !.pc = "respond", !.cmd = cmd,
                                              !.res = r.res, !.act = r.act]]
                      /\ handled' = [handled EXCEPT ![s] =
                                       [kind |-> "exec", cmd |-> cmd,
                                        res |-> r.res]]
                      /\ UNCHANGED <<pc, arg, lock, listenerEnabled, tray, last,
                                     conn, rearmed, exitBy, lastTick>>
       ELSE /\ ~pipe[s].peerOpen
            /\ pipe' = [pipe EXCEPT ![s] = NoPipe]
            /\ conn' = [c \in Procs |->
                         IF c = pipe[s].cur /\ conn[c].srv = s
                           THEN [conn[c] EXCEPT !.srvOpen = FALSE] ELSE conn[c]]
            /\ handled' = [handled EXCEPT ![s] =
                             [NoHandled EXCEPT !.kind = "dropped"]]
            /\ UNCHANGED <<pc, arg, lock, listenerEnabled, tray, last, rearmed,
                           exitBy, lastTick>>
  /\ UNCHANGED <<role, log>>

\* conn.Read returns.  With an error (the client closed its end without
\* writing) the connection is closed and the loop accepts again.  With a
\* byte, executeCommand is called and runs up to the call it ends in:
\* os.Exit(0) for QUIT; otherwise the write of listenerEnabled and the
\* response are left to PipeRespond.
PipeRead(s) ==
  /\ pipe[s].pc = "read"
  /\ IF pipe[s].inbox # <<>>
       THEN LET cmd == pipe[s].inbox[1]
                r == executeCommand(cmd, listenerEnabled[s])
            IN IF r.act = "exit"
                 THEN Exit(s, "quit", NoTick)
                 ELSE /\ pipe' = [pipe EXCEPT ![s] =
                                    [@ EXCEPT !.pc = "respond", !.cmd = cmd,
                                              !.res = r.res, !.act = r.act]]
                      /\ handled' = [handled EXCEPT ![s] =
                                       [kind |-> "exec", cmd |-> cmd,
                                        res |-> r.res]]
                      /\ UNCHANGED <<pc, arg, lock, listenerEnabled, tray, last,
                                     conn, rearmed, exitBy, lastTick>>
       ELSE /\ ~pipe[s].peerOpen
            /\ pipe' = [pipe EXCEPT ![s] = [NoPipe EXCEPT !.pc = "accept"]]
            /\ conn' = [c \in Procs |->
                         IF c = pipe[s].cur /\ conn[c].srv = s
                           THEN [conn[c] EXCEPT !.srvOpen = FALSE] ELSE conn[c]]
            /\ handled' = [handled EXCEPT ![s] =
                             [NoHandled EXCEPT !.kind = "dropped"]]
            /\ UNCHANGED <<pc, arg, lock, listenerEnabled, tray, last, rearmed,
                           exitBy, lastTick>>
  /\ UNCHANGED <<role, log>>

\* The rest of the handler: startListening() or stopListening() when
\* executeCommand decided on it, the response byte (lost with an error
\* when the client end is closed), conn.Close().
PipeRespond(s) ==
  /\ pipe[s].pc = "respond"
  /\ LET c == pipe[s].cur
         en == applyAct(pipe[s].act, listenerEnabled[s])
     IN /\ listenerEnabled' = [listenerEnabled EXCEPT ![s] = en]
        /\ rearmed' = [rearmed EXCEPT ![s] =
                         IF pipe[s].act = "none" THEN @
                         ELSE en /\ ~listenerEnabled[s]]
        /\ conn' = [conn EXCEPT ![c] =
                      IF pipe[s].peerOpen
                        THEN [@ EXCEPT !.resp = Append(@, responseByte(pipe[s].res)),
                                       !.srvOpen = FALSE]
                        ELSE @]
  /\ pipe' = [pipe EXCEPT ![s] = [NoPipe EXCEPT !.pc = "accept"]]
  /\ UNCHANGED <<pc, arg, role, lock, tray, last, log, exitBy, lastTick,
                 handled>>

\* ------------------------------------------------ createSystemTrayIcon

\* A click on a menu item: Start and Stop read listenerEnabled and leave
\* the write to TrayApply, Quit is os.Exit(0).
TrayClick(s) ==
  /\ tray[s] = "idle"
  /\ \E item \in {"start", "stop", "quit"} :
       IF item = "quit"
         THEN /\ Exit(s, "tray", NoTick)
              /\ UNCHANGED <<role, log>>
         ELSE /\ tray' = [tray EXCEPT ![s] =
                            IF item = "start" /\ ~listenerEnabled[s] THEN "start"
                            ELSE IF item = "stop" /\ listenerEnabled[s] THEN "stop"
                            ELSE "idle"]
              /\ handled' = [handled EXCEPT ![s] = NoHandled]
              /\ UNCHANGED <<pc, arg, role, lock, listenerEnabled, pipe, last,
                             conn, log, exitBy, lastTick, rearmed>>

\* startListening() or stopListening() called from the menu handler
TrayApply(s) ==
  /\ tray[s] \in {"start", "stop"}
  /\ LET en == applyAct(tray[s], listenerEnabled[s])
     IN /\ listenerEnabled' = [listenerEnabled EXCEPT ![s] = en]
        /\ rearmed' = [rearmed EXCEPT ![s] = en /\ ~listenerEnabled[s]]
  /\ tray' = [tray EXCEPT ![s] = "idle"]
  /\ handled' = [handled EXCEPT ![s] = NoHandled]
  /\ UNCHANGED <<pc, arg, role, lock, pipe, last, conn, log, exitBy, lastTick>>

\* ---------------------------------------------------------- clientMain

\* A pipe instance a dial can connect to: the listener of a live server is
\* in (or on its way into) Accept and no other client took the instance.
freeInstance(s) == pipe[s].pc = "accept" /\ pipe[s].cur = NoProc

\* A dial that reports the failure and dials again
ClientDial_retries(c) ==
  /\ pc[c] = "dial"
  /\ \/ \E s \in Procs :
          /\ freeInstance(s)
          /\ pipe' = [pipe EXCEPT ![s].cur = c, ![s].peerOpen = TRUE]
          /\ conn' = [conn EXCEPT ![c] = [srv |-> s, resp |-> <<>>,
                                          srvOpen |-> TRUE]]
          /\ pc' = [pc EXCEPT ![c] = "send"]
          /\ UNCHANGED <<arg, exitBy>>
     \/ /\ \A s \in Procs : ~freeInstance(s)
        /\ exitBy' = [exitBy EXCEPT ![c] = "dial failed"]
        /\ UNCHANGED <<pc, arg, conn, pipe>>
  /\ UNCHANGED <<role, lock, listenerEnabled, tray, last, log, lastTick,
                 rearmed, handled>>

\* winio.DialPipe: connect, or fail (no pipe, or every instance stayed
\* busy until the dial timed out) and return.
ClientDial(c) ==
  /\ pc[c] = "dial"
  /\ \/ \E s \in Procs :
          /\ freeInstance(s)
          /\ pipe' = [pipe EXCEPT ![s].cur = c, ![s].peerOpen = TRUE]
          /\ conn' = [conn EXCEPT ![c] = [srv |-> s, resp |-> <<>>,
                                          srvOpen |-> TRUE]]
          /\ pc' = [pc EXCEPT ![c] = "send"]
          /\ UNCHANGED <<arg, exitBy>>
     \/ /\ \A s \in Procs : ~freeInstance(s)
        /\ ClientExit(c, "dial failed")
        /\ UNCHANGED pipe
  /\ UNCHANGED <<role, lock, listenerEnabled, tray, last, log, lastTick,
                 rearmed, handled>>

\* The byte f.Write sends
wireByte(parsedCmd) == parsedCmd

\* parseCommand and f.Write; a is the argument the process was started
\* with.  On a parse error nothing is written; after QUIT is written the
\* client returns without reading.
ClientSend(c) ==
  /\ pc[c] = "send"
  /\ \E a \in Args :
       LET parsed == parseCommand(a)
           s == conn[c].srv
           sentTo == [pipe EXCEPT ![s].inbox = Append(@, wireByte(parsed.cmd))]
       IN IF parsed.err
            THEN /\ ClientExit(c, "return")
                 /\ pipe' = peerClosed(c)
          ELSE IF ~conn[c].srvOpen
            THEN /\ ClientExit(c, "return")
                 /\ pipe' = peerClosed(c)
          ELSE IF parsed.cmd = CMD_QUIT
            THEN /\ ClientExit(c, "return")
                 /\ pipe' = [sentTo EXCEPT ![s].peerOpen = FALSE]
          ELSE /\ pipe' = sentTo
               /\ arg' = [arg EXCEPT ![c] = a]
               /\ pc' = [pc EXCEPT ![c] = "recv"]
               /\ UNCHANGED <<conn, exitBy>>
  /\ UNCHANGED <<role, lock, listenerEnabled, tray, last, log, lastTick,
                 rearmed, handled>>

\* f.Read: the response byte and the message for it, or an error when the
\* server end was closed without one.
ClientRecv(c) ==
  /\ pc[c] = "recv"
  /\ conn[c].resp # <<>> \/ ~conn[c].srvOpen
  /\ ClientExit(c, "return")
  /\ pipe' = peerClosed(c)
  /\ UNCHANGED <<role, lock, listenerEnabled, tray, last, log, lastTick,
                 rearmed, handled>>

\* -------------------------------------------------------- specification
Next ==
  \/ \E p \in Procs : Launch(p)
  \/ \E p \in Procs : ServerMain(p)
  \/ \E p \in Procs : ServerStartListening(p)
  \/ \E p \in Procs : MonitorOpen(p)
  \/ \E p \in Procs : TickCheck(p)
  \/ \E p \in Procs : TickPoll(p)
  \/ \E p \in Procs : PipeListen(p)
  \/ \E p \in Procs : PipeAccept(p)
  \/ \E p \in Procs : PipeRead(p)
  \/ \E p \in Procs : PipeRespond(p)
  \/ \E p \in Procs : TrayClick(p)
  \/ \E p \in Procs : TrayApply(p)
  \/ \E p \in Procs : ClientDial(p)
  \/ \E p \in Procs : ClientSend(p)
  \/ \E p \in Procs : ClientRecv(p)

Spec == Init /\ [][Next]_vars

\* ------------------------------------------------- steps and positions

Alive(p) == pc[p] \notin {"new", "exited"}
Servers == {p \in Procs : role[p] = "server" /\ Alive(p)}

\* p's armed tick ran to its end (checkForChanges returned true)
Polled(p) == pc[p] = "poll" /\ pc'[p] = "tick"
\* the snapshot that tick read, and the cache it found
PolledSnap == lastTick'.snap
\* s's listener read a command byte and executeCommand returned
Executed(s) == pipe[s].pc = "read" /\ pipe'[s].pc = "respond"
\* s's listener finished the connection it was answering
Responded(s) == pipe[s].pc = "respond" /\ pipe'[s].pc = "accept"
\* the flag value START and STOP ask for
Target(cmd) == cmd = CMD_START

\* ---------------------------------------------------------------- C1
\* C1: executing START or STOP when listenerEnabled already has the value
\* the command asks for returns false and leaves the flag as it is;
\* executing it when the flag has the other value returns true and writes
\* the flag once, to the value asked for.
C1_ExecuteStartStop ==
  [][\A s \in Procs :
       /\ Executed(s) /\ pipe'[s].cmd \in {CMD_START, CMD_STOP} =>
            /\ pipe'[s].res = (listenerEnabled[s] # Target(pipe'[s].cmd))
            /\ listenerEnabled'[s] = listenerEnabled[s]
       /\ Responded(s) /\ pipe[s].cmd \in {CMD_START, CMD_STOP} =>
            IF pipe[s].res
              THEN listenerEnabled'[s] = Target(pipe[s].cmd)
              ELSE listenerEnabled'[s] = listenerEnabled[s]]_vars

\* A client's STOP found the monitor armed: it has been answered with 1
\* and the flag is off.
C1_Witness ==
  \E s \in Servers, c \in Procs :
    /\ pc[c] = "recv" /\ arg[c] = "-stop" /\ conn[c].srv = s
    /\ conn[c].resp = <<1>>
    /\ ~listenerEnabled[s] /\ tray[s] = "idle"

\* ---------------------------------------------------------------- C2
\* C2: at most one live process is a server; a live server holds the lock
\* file; a process that did not get the lock file is a client, runs none
\* of the server's goroutines, never holds the lock file, and no
\* connection ever carries more than one command byte.
C2_SingleServer ==
  /\ Cardinality(Servers) <= 1
  /\ \A p \in Procs :
       /\ p \in Servers => lock = p
       /\ role[p] = "client" =>
            /\ pc[p] \in {"dial", "send", "recv", "exited"}
            /\ lock # p
            /\ pipe[p].pc = "off" /\ tray[p] = "off"
       /\ Len(pipe[p].inbox) <= 1

\* A server is polling and the invocation that found the lock file taken
\* waits, as its client, for the reply to its command.
C2_Witness ==
  \E s \in Servers, c \in Procs :
    /\ pc[s] = "poll" /\ lock = s
    /\ role[c] = "client" /\ pc[c] = "recv" /\ conn[c].srv = s

\* ---------------------------------------------------------------- C3
\* C3: when the listener reads a QUIT byte the server process ends there,
\* by the os.Exit(0) of executeCommand, and no byte is written to any
\* client; no response is ever pending for QUIT; a client that sent QUIT
\* ends with the write and is never found reading.
C3_QuitTerminates ==
  [][\A s \in Procs :
       /\ PipeRead(s) /\ pipe[s].inbox = <<CMD_QUIT>> =>
            /\ pc'[s] = "exited" /\ exitBy'[s] = "quit"
            /\ \A c \in Procs : conn'[c].resp = conn[c].resp
       /\ pipe'[s].pc = "respond" => pipe'[s].cmd # CMD_QUIT
       /\ pc'[s] = "recv" => parseCommand(arg'[s]).cmd # CMD_QUIT
       /\ pipe'[s].inbox = <<CMD_QUIT>> /\ pipe[s].inbox = <<>> =>
            pc'[pipe[s].cur] = "exited"]_vars

\* A server ended by QUIT, the client that sent it gone without a reply
C3_Witness ==
  \E s \in Procs, c \in Procs :
    /\ role[s] = "server" /\ exitBy[s] = "quit"
    /\ role[c] = "client" /\ pc[c] = "exited" /\ conn[c].resp = <<>>

\* ---------------------------------------------------------------- C4
\* C4: a connection on which a byte other than QUIT was read gets one
\* call of executeCommand, then one response byte, 1 for true and 0 for
\* false, and is closed; the listener reads nothing more from it, and no
\* connection holds more than one response byte.
C4_OneResponse ==
  [][\A s \in Procs :
       /\ Executed(s) =>
            /\ pipe'[s].cmd = pipe[s].inbox[1]
            /\ pipe'[s].cur = pipe[s].cur
       /\ pipe[s].pc = "respond" =>
            /\ pipe[s].peerOpen /\ conn[pipe[s].cur].resp = <<>>
            /\ pipe'[s].pc \in {"respond", "accept", "off"}
       /\ Responded(s) =>
            LET c == pipe[s].cur
            IN /\ conn'[c].resp = (IF pipe[s].res THEN <<1>> ELSE <<0>>)
               /\ ~conn'[c].srvOpen
               /\ pipe'[s].cur = NoProc /\ pipe'[s].inbox = <<>>
       /\ Len(conn'[s].resp) <= 1]_vars

\* A client holds the reply 0 of a server that closed the connection
C4_Witness ==
  \E c \in Procs :
    /\ pc[c] = "recv" /\ conn[c].resp = <<0>> /\ ~conn[c].srvOpen
    /\ pipe[conn[c].srv].pc = "accept" /\ pipe[conn[c].srv].cur # c

\* ---------------------------------------------------------------- C5
\* C5: every byte a client writes to the server is STOP (1), QUIT (2) or
\* START (3); NONE (0) is never on the wire.
C5_WireBytes ==
  \A s \in Procs : \A i \in 1..Len(pipe[s].inbox) :
    pipe[s].inbox[i] \in {CMD_STOP, CMD_QUIT, CMD_START}

\* ---------------------------------------------------------------- C6
\* C6: when the server enters its poll loop, listenerEnabled is true if it
\* was started with no command or with START, and false if it was started
\* with STOP.
C6_LaunchCommand ==
  [][\A p \in Procs :
       pc[p] = "listenToProxyChanges" /\ pc'[p] = "tick" =>
         listenerEnabled'[p] = (parseCommand(arg[p]).cmd # CMD_STOP)]_vars

\* ---------------------------------------------------------------- C7
\* C7: an armed tick whose snapshot differs from the cache in either field
\* (an absent address read as "") sets the cache to the snapshot and
\* appends exactly one line to the log.
C7_ChangeLogged ==
  [][\A p \in Procs :
       Polled(p) /\ PolledSnap # last[p] =>
         /\ last'[p] = PolledSnap
         /\ Len(log') = Len(log) + 1]_vars

\* ---------------------------------------------------------------- C8
\* C8: an armed tick whose snapshot equals the cache in both fields, or
\* equals the snapshot the same server process polled before it, appends
\* nothing to the log.
C8_NoChangeNoLine ==
  [][\A p \in Procs :
       /\ Polled(p)
       /\ \/ PolledSnap = last[p]
          \/ lastTick.polled /\ PolledSnap = lastTick.snap
       => log' = log]_vars

\* An armed tick found nothing new after a change had been logged
C8_Witness ==
  \E p \in Procs :
    /\ pc[p] = "tick" /\ lastTick.kind = "same" /\ lastTick.snap = last[p]
    /\ log # <<>> /\ last[p] # InitLast

\* ---------------------------------------------------------------- C9
\* C9: a tick that finds listenerEnabled false appends nothing to the log
\* and the loop goes on; once a command has armed the monitor again, the
\* first tick whose snapshot differs from the cache appends exactly one
\* line.
C9_DisarmedSilent ==
  [][\A p \in Procs :
       /\ pc[p] = "tick" /\ ~listenerEnabled[p] =>
            /\ log' = log
            /\ pc'[p] \in {"tick", "exited"}
       /\ Polled(p) /\ rearmed[p] /\ PolledSnap # last[p] =>
            Len(log') = Len(log) + 1]_vars

\* --------------------------------------------------------------- C10
\* C10: the line appended for a change is "proxy off", without an address,
\* when the new snapshot's flag is 0, and "proxy on, " followed by the new
\* snapshot's address (which may be empty) otherwise; a tick appends at most
\* one line.  The two examples of the claim, with 10.0.0.1:8080 as the
\* address A of the first: (1, A) to (0, A) appends "proxy off", and
\* enabled 0 to (1, "10.0.0.1:8080") appends "proxy on, 10.0.0.1:8080".
ExpectedLine(snap) ==
  IF snap.enable = 0 THEN "proxy off"
  ELSE IF snap.server = "" THEN "proxy on, "
  ELSE "proxy on, 10.0.0.1:8080"

C10_LineRecordsSnapshot ==
  [][\A p \in Procs :
       /\ Polled(p) /\ log' # log => log' = Append(log, ExpectedLine(PolledSnap))
       /\ Polled(p) /\ last[p] = [enable |-> 1, server |-> "10.0.0.1:8080"]
                    /\ PolledSnap = [enable |-> 0, server |-> "10.0.0.1:8080"]
            => log' = Append(log, "proxy off")
       /\ Polled(p) /\ last[p].enable = 0
                    /\ PolledSnap = [enable |-> 1, server |-> "10.0.0.1:8080"]
            => log' = Append(log, "proxy on, 10.0.0.1:8080")]_vars

\* The proxy went on with an address and then off with the address kept
C10_Witness ==
  \E p \in Procs :
    /\ log = <<"proxy on, 10.0.0.1:8080", "proxy off">>
    /\ last[p] = [enable |-> 0, server |-> "10.0.0.1:8080"]
    /\ lastTick.kind = "logged"

\* --------------------------------------------------------------- C11
\* C11: whatever clients send START and STOP in whatever order, an
\* execution that returned true leaves the flag at the value its command
\* asks for, and once the listener has executed a client's command the flag
\* is changed by nothing but the execution of a command (the listener's
\* next one, or one from the tray menu): the flag is always the one the
\* last execution left, and no execution is undone.
C11_LastCommandWins ==
  [][\A s \in Procs :
       /\ Responded(s) /\ pipe[s].cmd \in {CMD_START, CMD_STOP} /\ pipe[s].res =>
            listenerEnabled'[s] = Target(pipe[s].cmd)
       /\ /\ handled[s].kind = "exec" /\ pc'[s] # "exited"
          /\ listenerEnabled'[s] # listenerEnabled[s]
          => \/ Responded(s) /\ pipe[s].act # "none"
             \/ tray[s] \in {"start", "stop"} /\ tray'[s] = "idle"]_vars

\* --------------------------------------------------------------- C12
\* s's listener executes a START or STOP, and the command it executed
\* before was the same one, with no tray command and no start-up write of
\* the flag since
Repeated(s) ==
  /\ Executed(s)
  /\ pipe'[s].cmd \in {CMD_START, CMD_STOP}
  /\ handled[s].kind = "exec" /\ handled[s].cmd = pipe'[s].cmd

NoServerReachable == \A s \in Procs : ~freeInstance(s)

\* The scheduler runs every started client, and winio.DialPipe returns
\* within its default timeout: a client does not stay in the dial for ever.
FairSpec == Spec /\ \A c \in Procs : WF_vars(ClientDial(c))

\* C13: a dial that finds no server to connect to ends the client there,
\* with the connection failure reported, no byte written to any pipe and
\* no connection made, and the client does not dial again; a client that
\* dials always gets out of the dial, connected or ended.
C13_DialFailure ==
  /\ [][\A c \in Procs :
          ClientDial(c) /\ NoServerReachable =>
            /\ pc'[c] = "exited" /\ exitBy'[c] = "dial failed"
            /\ pipe' = pipe /\ conn'[c] = NoConn]_vars
  /\ \A c \in Procs : (pc[c] = "dial") ~> (pc[c] # "dial")

\* A client found the server gone and ended with the dial failure
C13_Witness ==
  \E c \in Procs :
    /\ role[c] = "client" /\ exitBy[c] = "dial failed"
    /\ Servers = {} /\ lock = NoProc

\* --------------------------------------------------------------- C14
\* C14: the cache of a running server changes only in an armed tick that
\* appends a line to the log, and it then holds what that line records;
\* it is what the last line logged, never what a tick merely read, and no
\* command, disarmed tick or tick that logs nothing writes it.
C14_CacheIsLastLogged ==
  [][\A p \in Procs :
       pc'[p] # "exited" /\ last'[p] # last[p] =>
         /\ Polled(p)
         /\ Len(log') = Len(log) + 1
         /\ log'[Len(log')] = ExpectedLine(last'[p])]_vars

\* --------------------------------------------------------------- C15
\* c is connected to s and has not written its byte; s's listener waits
\* for it in conn.Read
Hung(c, s) ==
  /\ pc[c] = "send" /\ conn[c].srv = s /\ conn[c].srvOpen
  /\ pipe[s].pc = "read" /\ pipe[s].cur = c /\ pipe[s].inbox = <<>>

\* C15: while a client that does not send its byte holds a connection to
\* a server, another client's dial still connects to that server (its
\* command is still to be executed and answered).
C15_HungClientNoBlock ==
  [][\A c \in Procs :
       ClientDial(c) /\ (\E h \in Procs, s \in Servers : Hung(h, s)) =>
         pc'[c] = "send"]_vars

\* --------------------------------------------------------------- C16
\* C16: the listener and the tray menu handler of a polling server are
\* never both past the test of listenerEnabled with the same decision: of
\* a START from the pipe and a Start from the menu (or a STOP and a Stop)
\* executed at the same time, at most one takes effect and writes the
\* flag.
C16_OneTakesEffect ==
  \A s \in Procs :
    ~(/\ pc[s] \in {"tick", "poll"}
      /\ pipe[s].pc = "respond" /\ pipe[s].res
      /\ pipe[s].act \in {"start", "stop"}
      /\ tray[s] = pipe[s].act)

\* --------------------------------------------------------------- C17
\* C17: a server that is in its poll loop ends, and its listener stops,
\* only by QUIT: the os.Exit(0) of executeCommand, or that of the tray
\* menu's Quit item.  Nothing else ends the process, an unreadable
\* registry value and a client's I/O error included.
C17_OnlyQuitStops ==
  [][\A s \in Procs :
       /\ role[s] = "server" /\ pc[s] \in {"tick", "poll"}
       /\ pc'[s] = "exited" \/ pipe'[s].pc = "off"
       => exitBy'[s] \in {"quit", "tray"}]_vars

\* --------------------------------------------------------------- C18
\* conn.Read of s's listener fails (the client closed its end without
\* writing) and the process lives on
Dropped(s) ==
  /\ pipe[s].pc = "read" /\ pipe[s].inbox = <<>> /\ pipe'[s].pc # "read"
  /\ pc'[s] # "exited"

C19_FatalAndAbsent ==
  [][\A p \in Procs :
       /\ pc[p] = "poll" /\ pc'[p] # "poll" =>
            \A reg \in RegStates :
              LET r == checkForChanges(last[p].enable, last[p].server, reg)
              IN /\ reg.enable = -1 =>
                      ~r.cont /\ r.lines = <<>> /\ r.enable = last[p].enable
                              /\ r.server = last[p].server
                 /\ reg.enable # -1 /\ reg.server = Absent =>
                      /\ r.cont /\ r.server = ""
                      /\ r.lines \in
                           {<<>>, <<ExpectedLine([enable |-> reg.enable,
                                                  server |-> ""])>>}
       /\ pc[p] = "poll" /\ lastTick'.kind = "fatal" =>
            pc'[p] = "exited" /\ exitBy'[p] = "return" /\ log' = log
       /\ Polled(p) /\ PolledSnap.server = "" =>
            /\ last'[p].server = ""
            /\ log' # log => log' = Append(log, ExpectedLine(PolledSnap))
       /\ pc[p] = "tick" /\ ~listenerEnabled[p] =>
            /\ log' = log
            /\ last'[p] = last[p] \/ pc'[p] = "exited"
            /\ pc'[p] = "tick" \/ exitBy'[p] \in {"quit", "tray"}]_vars

\* A poll loop ended on an unreadable ProxyEnable after it had logged a
\* change
C19_Witness ==
  \E p \in Procs :
    /\ role[p] = "server" /\ pc[p] = "exited" /\ exitBy[p] = "return"
    /\ lastTick.kind = "fatal" /\ log # <<>>

\* --------------------------------------------------------------- C20
\* the values of a byte
Bytes == 0..255

\* C20: for every byte that is not START, STOP or QUIT, NONE (0) included,
\* executeCommand returns true and calls nothing; when the listener reads
\* such a byte it answers 1 and listenerEnabled is not written.  The
\* reply 1 does not say that the flag changed.
C20_UnknownByteTrue ==
  [][\A s \in Procs :
       /\ Executed(s) /\ pipe'[s].cmd \notin {CMD_START, CMD_STOP, CMD_QUIT} =>
            /\ \A b \in Bytes \ {CMD_START, CMD_STOP, CMD_QUIT} :
                 executeCommand(b, listenerEnabled[s])
                   = [res |-> TRUE, act |-> "none"]
            /\ pipe'[s].res /\ pipe'[s].act = "none"
            /\ listenerEnabled'[s] = listenerEnabled[s]
       /\ Responded(s) /\ pipe[s].cmd \notin {CMD_START, CMD_STOP, CMD_QUIT} =>
            /\ conn'[pipe[s].cur].resp = <<1>>
            /\ listenerEnabled'[s] = listenerEnabled[s]]_vars

\* A client started without an argument holds the reply 1 from a server
\* whose flag is as it was at the start
C20_Witness ==
  \E s \in Servers, c \in Procs :
    /\ role[c] = "client" /\ pc[c] = "recv" /\ arg[c] = ""
    /\ conn[c].srv = s /\ conn[c].resp = <<1>>
    /\ handled[s] = [kind |-> "exec", cmd |-> NO_COMMAND, res |-> TRUE]
    /\ listenerEnabled[s]

====
